---------------------------- MODULE Spec2Model ----------------------------
(***************************************************************************)
(* strip_comments of scripts/strip_jsonc_comments.py: a single left-to-    *)
(* right scan that removes // and block comments from JSONC text while     *)
(* copying string literals through.  One action per branch of the outer    *)
(* loop and per iteration of the two inner skip loops.                     *)
(***************************************************************************)
EXTENDS Integers, Sequences, FiniteSets, TLC

\* Longest input over the full alphabet.
MaxLen == 5
\* Longest input over the comment alphabet (slash, star, ordinary).
MaxCommentLen == 7
\* Longest input over the quoted-comment alphabet (quote, slash, newline).
MaxQuotedLen == 6

\* The characters the scan tells apart; every other character behaves as ORDINARY.
QUOTE == "\""
BACKSLASH == "\\"
SLASH == "/"
STAR == "*"
NEWLINE == "\n"
ORDINARY == "x"

Alphabet == {QUOTE, BACKSLASH, SLASH, STAR, NEWLINE, ORDINARY}
CommentAlphabet == {SLASH, STAR, ORDINARY}
QuotedAlphabet == {QUOTE, SLASH, NEWLINE}

\* What indexing a str outside its range produces.
IndexError == "IndexError"

Texts(A, n) == UNION {[1..k -> A] : k \in 0..n}
Inputs ==
  Texts(Alphabet, MaxLen) \cup Texts(CommentAlphabet, MaxCommentLen)
    \cup Texts(QuotedAlphabet, MaxQuotedLen)

Min(a, b) == IF a < b THEN a ELSE b

\* jsonc_text[k], 0-based, with Python's negative indices.
CharAt(t, k) ==
  IF k >= 0 /\ k < Len(t) THEN t[k + 1]
  ELSE IF k < 0 /\ k >= -Len(t) THEN t[Len(t) + k + 1]
  ELSE IndexError

\* jsonc_text[k : k + 2] for k >= 0: clipped at the end, never an error.
Slice2(t, k) == SubSeq(t, k + 1, Min(k + 2, Len(t)))

VARIABLES
  jsonc_text,   \* the argument of the current call
  i,            \* cursor
  in_string,
  escape_next,
  result,       \* list of characters appended so far
  pc,           \* "outer" (line 15), "line" (line 40), "block" (line 48), "done" (line 58), "error"
  call,         \* 1: the call on the input, 2: the call on the first call's return value
  first,        \* return value of call 1 (<<>> until it has returned)
  given,        \* history: the argument of call 1
  last,         \* history: the branch executed by the previous step
  heads,        \* history: the cursor values at which the outer loop body was entered
  skip_at,      \* history: cursor at which the latest comment was met (-1: none yet)
  skip_out,     \* history: result when the latest comment was met
  str_at,       \* history: cursor of the latest quote that set in_string (-1: none yet)
  str_out       \* history: result when that quote was met

vars == <<jsonc_text, i, in_string, escape_next, result, pc, call, first,
          given, last, heads, skip_at, skip_out, str_at, str_out>>

\* line 15
while_cond(t, k) == k < Len(t)

\* line 16
char == CharAt(jsonc_text, i)

\* line 19
escaped_emit_dropped(out, c) == out
escaped_emit(out, c) == Append(out, c)

\* line 24
backslash_test_anywhere(c, ins) == c = BACKSLASH
backslash_test(c, ins) == c = BACKSLASH /\ ins

\* line 26
backslash_escape_unset == FALSE
backslash_escape == TRUE

\* line 30
quote_test(c, esc) == c = QUOTE /\ ~esc

\* line 31
toggle_set(ins) == TRUE
toggle(ins) == ~ins

\* line 36
comment_check_always(ins) == TRUE
comment_check(ins) == ~ins

\* line 38
is_line_comment_one_slash(t, k) == CharAt(t, k) = SLASH
is_line_comment(t, k) == Slice2(t, k) = <<SLASH, SLASH>>

\* line 40
line_cond_unbounded(t, k) == CharAt(t, k) # NEWLINE
line_cond_to_end(t, k) == k < Len(t)
line_cond(t, k) == k < Len(t) /\ CharAt(t, k) # NEWLINE

\* line 45
is_block_comment(t, k) == Slice2(t, k) = <<SLASH, STAR>>

\* line 47
block_open_next(k) == k + 2

\* line 48
block_cond(t, k) == k < Len(t) - 1

\* line 49
is_block_close(t, k) == Slice2(t, k) = <<STAR, SLASH>>

\* line 50
block_close_next_short(k) == k + 1
block_close_next(k) == k + 2

\* line 56
copy_next_stuck(k) == k
copy_next(k) == k + 1

\* lines 10-13: the locals of a fresh call
Init ==
  /\ jsonc_text \in Inputs
  /\ i = 0
  /\ in_string = FALSE
  /\ escape_next = FALSE
  /\ result = <<>>
  /\ pc = "outer"
  /\ call = 1
  /\ first = <<>>
  /\ given = jsonc_text
  /\ last = "call"
  /\ heads = <<>>
  /\ skip_at = -1
  /\ skip_out = <<>>
  /\ str_at = -1
  /\ str_out = <<>>

\* The guards of the outer loop body, in the order the code tests them.
AtBody == pc = "outer" /\ while_cond(jsonc_text, i)
NotEscaped == AtBody /\ ~escape_next
NotBackslash == NotEscaped /\ ~backslash_test(char, in_string)
NotQuote == NotBackslash /\ ~quote_test(char, escape_next)
NotLineComment ==
  NotQuote /\ ~(comment_check(in_string) /\ is_line_comment(jsonc_text, i))
NotBlockComment ==
  NotLineComment /\ ~(comment_check(in_string) /\ is_block_comment(jsonc_text, i))

\* lines 18-22
EscapedChar ==
  /\ AtBody
  /\ escape_next
  /\ result' = escaped_emit(result, char)
  /\ escape_next' = FALSE
  /\ i' = i + 1
  /\ last' = "escaped"
  /\ heads' = Append(heads, i)
  /\ UNCHANGED <<jsonc_text, in_string, pc, call, first, given, skip_at, skip_out, str_at, str_out>>

\* lines 24-28
Backslash ==
  /\ NotEscaped
  /\ backslash_test(char, in_string)
  /\ result' = Append(result, char)
  /\ escape_next' = backslash_escape
  /\ i' = i + 1
  /\ last' = "backslash"
  /\ heads' = Append(heads, i)
  /\ UNCHANGED <<jsonc_text, in_string, pc, call, first, given, skip_at, skip_out, str_at, str_out>>

\* lines 30-34
Quote ==
  /\ NotBackslash
  /\ quote_test(char, escape_next)
  /\ in_string' = toggle(in_string)
  /\ result' = Append(result, char)
  /\ i' = i + 1
  /\ last' = "quote"
  /\ heads' = Append(heads, i)
  /\ str_at' = IF in_string' /\ ~in_string THEN i ELSE str_at
  /\ str_out' = IF in_string' /\ ~in_string THEN result ELSE str_out
  /\ UNCHANGED <<jsonc_text, escape_next, pc, call, first, given, skip_at, skip_out>>

\* lines 36-38: a line comment is met; control moves to the inner loop of line 40
LineCommentOpen ==
  /\ NotQuote
  /\ comment_check(in_string)
  /\ is_line_comment(jsonc_text, i)
  /\ pc' = "line"
  /\ last' = "line_open"
  /\ heads' = Append(heads, i)
  /\ skip_at' = i
  /\ skip_out' = result
  /\ UNCHANGED <<jsonc_text, i, in_string, escape_next, result, call, first, given, str_at, str_out>>

\* lines 40-41 with the skipped characters still fed to the string tracking
LineCommentSkip_tracking ==
  /\ pc = "line"
  /\ line_cond(jsonc_text, i)
  /\ IF CharAt(jsonc_text, i) = IndexError
       THEN pc' = "error" /\ i' = i
       ELSE pc' = pc /\ i' = i + 1
  /\ in_string' = IF CharAt(jsonc_text, i) = QUOTE THEN ~in_string ELSE in_string
  /\ last' = "line_skip"
  /\ UNCHANGED <<jsonc_text, escape_next, result, call, first, given,
                 heads, skip_at, skip_out, str_at, str_out>>

\* lines 40-41: one iteration of the line skip loop
LineCommentSkip ==
  /\ pc = "line"
  /\ line_cond(jsonc_text, i)
  /\ IF CharAt(jsonc_text, i) = IndexError
       THEN pc' = "error" /\ i' = i
       ELSE pc' = pc /\ i' = i + 1
  /\ last' = "line_skip"
  /\ UNCHANGED <<jsonc_text, in_string, escape_next, result, call, first, given,
                 heads, skip_at, skip_out, str_at, str_out>>

\* lines 40, 42: the line skip loop ends; continue
LineCommentEnd ==
  /\ pc = "line"
  /\ ~line_cond(jsonc_text, i)
  /\ pc' = "outer"
  /\ last' = "line_end"
  /\ UNCHANGED <<jsonc_text, i, in_string, escape_next, result, call, first, given,
                 heads, skip_at, skip_out, str_at, str_out>>

\* lines 45-47: a block comment is met; the opener is passed
BlockCommentOpen ==
  /\ NotLineComment
  /\ comment_check(in_string)
  /\ is_block_comment(jsonc_text, i)
  /\ i' = block_open_next(i)
  /\ pc' = "block"
  /\ last' = "block_open"
  /\ heads' = Append(heads, i)
  /\ skip_at' = i
  /\ skip_out' = result
  /\ UNCHANGED <<jsonc_text, in_string, escape_next, result, call, first, given, str_at, str_out>>

\* lines 48-49, 52: one iteration of the block skip loop that finds no closer
BlockCommentSkip ==
  /\ pc = "block"
  /\ block_cond(jsonc_text, i)
  /\ ~is_block_close(jsonc_text, i)
  /\ i' = i + 1
  /\ last' = "block_skip"
  /\ UNCHANGED <<jsonc_text, in_string, escape_next, result, pc, call, first, given,
                 heads, skip_at, skip_out, str_at, str_out>>

\* lines 48-51, 53: the iteration that finds the closer; break, continue
BlockCommentClose ==
  /\ pc = "block"
  /\ block_cond(jsonc_text, i)
  /\ is_block_close(jsonc_text, i)
  /\ i' = block_close_next(i)
  /\ pc' = "outer"
  /\ last' = "block_close"
  /\ UNCHANGED <<jsonc_text, in_string, escape_next, result, call, first, given,
                 heads, skip_at, skip_out, str_at, str_out>>

\* lines 48, 53: the block skip loop ends on its condition; continue
BlockCommentExhaust ==
  /\ pc = "block"
  /\ ~block_cond(jsonc_text, i)
  /\ pc' = "outer"
  /\ last' = "block_exhaust"
  /\ UNCHANGED <<jsonc_text, i, in_string, escape_next, result, call, first, given,
                 heads, skip_at, skip_out, str_at, str_out>>

\* lines 55-56
Copy ==
  /\ NotBlockComment
  /\ result' = Append(result, char)
  /\ i' = copy_next(i)
  /\ last' = "copy"
  /\ heads' = Append(heads, i)
  /\ UNCHANGED <<jsonc_text, in_string, escape_next, pc, call, first, given,
                 skip_at, skip_out, str_at, str_out>>

\* lines 15, 58: the outer loop ends and the call returns "".join(result)
Return ==
  /\ pc = "outer"
  /\ ~while_cond(jsonc_text, i)
  /\ pc' = "done"
  /\ last' = "return"
  /\ UNCHANGED <<jsonc_text, i, in_string, escape_next, result, call, first, given,
                 heads, skip_at, skip_out, str_at, str_out>>

\* lines 8-13: strip_comments called on the value the first call returned
Reapply ==
  /\ pc = "done"
  /\ call = 1
  /\ jsonc_text' = result
  /\ first' = result
  /\ given' = given
  /\ call' = 2
  /\ i' = 0
  /\ in_string' = FALSE
  /\ escape_next' = FALSE
  /\ result' = <<>>
  /\ pc' = "outer"
  /\ last' = "call"
  /\ heads' = <<>>
  /\ skip_at' = -1
  /\ skip_out' = <<>>
  /\ str_at' = -1
  /\ str_out' = <<>>

Next ==
  \/ EscapedChar
  \/ Backslash
  \/ Quote
  \/ LineCommentOpen
  \/ LineCommentSkip
  \/ LineCommentEnd
  \/ BlockCommentOpen
  \/ BlockCommentSkip
  \/ BlockCommentClose
  \/ BlockCommentExhaust
  \/ Copy
  \/ Return
  \/ Reapply

Spec == Init /\ [][Next]_vars

\* The scan is sequential code: a step that can be taken is taken.
FairSpec == Spec /\ WF_vars(Next)

TypeOK ==
  /\ jsonc_text \in Seq(Alphabet)
  /\ i \in 0..(Len(jsonc_text) + 1)
  /\ in_string \in BOOLEAN
  /\ escape_next \in BOOLEAN
  /\ result \in Seq(Alphabet)
  /\ pc \in {"outer", "line", "block", "done", "error"}
  /\ call \in {1, 2}

-----------------------------------------------------------------------------
\* Vocabulary of the properties, stated on the text alone.

\* The two characters a, b stand at 0-based positions k, k + 1 of t.
TwoAt(t, k, a, b) == k >= 0 /\ k + 2 <= Len(t) /\ t[k + 1] = a /\ t[k + 2] = b

\* The positions at or after from where a block closer starts.
Closers(t, from) == {q \in from..(Len(t) - 2) : TwoAt(t, q, STAR, SLASH)}
FirstCloser(t, from) ==
  CHOOSE q \in Closers(t, from) : \A r \in Closers(t, from) : q <= r

\* The latest comment met is a block comment / a line comment.
MetBlock == skip_at >= 0 /\ TwoAt(jsonc_text, skip_at, SLASH, STAR)
MetLine == skip_at >= 0 /\ TwoAt(jsonc_text, skip_at, SLASH, SLASH)

NoMarkers(t) ==
  /\ \A k \in 1..Len(t) : t[k] # QUOTE
  /\ \A k \in 0..(Len(t) - 2) :
       ~TwoAt(t, k, SLASH, SLASH) /\ ~TwoAt(t, k, SLASH, STAR)

-----------------------------------------------------------------------------
\* C1: once the scan has met a block opener outside a string with no closer
\* at or after two characters past it, the output stays the text emitted
\* before the opener: nothing located after the opener is appended.
C1_UnterminatedBlockDropsRest ==
  (MetBlock /\ Closers(jsonc_text, skip_at + 2) = {}) => result = skip_out

\* C2: strip_comments is idempotent: the call on the first call's return
\* value returns that same value.
C2_Idempotent ==
  (pc = "done" /\ call = 2) => result = first

\* The second call has returned, and the first call had removed a comment
\* from an input that also holds a string.
C2_Witness ==
  /\ pc = "done" /\ call = 2
  /\ Len(first) < Len(given)
  /\ \E k \in 1..Len(first) : first[k] = QUOTE
  /\ \E k \in 1..Len(first) : first[k] = SLASH

\* C3: an input with no double quote, no // and no block opener is returned
\* unchanged.
C3_Identity ==
  (pc = "done" /\ NoMarkers(jsonc_text)) => result = jsonc_text

\* A returned call on a marker-free input holding a backslash, a closer, a
\* newline and a lone slash.
C3_Witness ==
  /\ pc = "done" /\ call = 1
  /\ jsonc_text = <<BACKSLASH, STAR, SLASH, NEWLINE, SLASH>>
  /\ result = jsonc_text

\* C4: at a cursor position with in_string true the character at the cursor
\* is appended, the cursor advances by exactly 1, and no skip starts.
C4_InStringCopied ==
  [][(pc = "outer" /\ i < Len(jsonc_text) /\ in_string)
       => /\ result' = Append(result, jsonc_text[i + 1])
          /\ i' = i + 1
          /\ pc' = "outer"
          /\ skip_at' = skip_at]_vars

\* Inside a string, a comment marker has just been copied through.
C4_Witness ==
  /\ pc = "outer" /\ in_string /\ i >= 3
  /\ \/ TwoAt(jsonc_text, i - 2, SLASH, SLASH)
     \/ TwoAt(jsonc_text, i - 2, SLASH, STAR)
  /\ Len(result) >= 2
  /\ SubSeq(result, Len(result) - 1, Len(result)) = SubSeq(jsonc_text, i - 1, i)
  /\ skip_at = -1

\* C5: a line comment met outside a string drops every character from its
\* first slash up to, not including, the next newline; a newline that follows
\* is appended on the next step; with no newline the rest of the input is
\* dropped and the scan ends.
C5_LineCommentDropped ==
  /\ [](/\ (pc = "line" \/ last = "line_end") =>
             /\ MetLine
             /\ result = skip_out
             /\ skip_at <= i /\ i <= Len(jsonc_text)
             /\ \A k \in skip_at..(i - 1) : jsonc_text[k + 1] # NEWLINE
        /\ last = "line_end" =>
             /\ pc = "outer"
             /\ i >= skip_at + 2
             /\ (i = Len(jsonc_text) \/ jsonc_text[i + 1] = NEWLINE))
  /\ [][last = "line_end" =>
          IF i < Len(jsonc_text)
            THEN result' = Append(result, NEWLINE) /\ i' = i + 1 /\ pc' = "outer"
            ELSE result' = result /\ pc' = "done"]_vars

\* A line comment with text in it was dropped after some output, and the
\* newline that ended it has just been appended.
C5_Witness ==
  /\ MetLine /\ last = "copy"
  /\ skip_out # <<>>
  /\ result = Append(skip_out, NEWLINE)
  /\ i >= skip_at + 4
  /\ jsonc_text[i] = NEWLINE
  /\ \A k \in skip_at..(i - 2) : jsonc_text[k + 1] # NEWLINE

\* C6: a block comment met outside a string whose closer starts at or after
\* two characters past the opener is dropped from its opening slash through
\* the slash of the first such closer, nothing is put in its place, the scan
\* resumes outside a string right after that closer, and no position inside
\* the comment is taken as the start of a comment (no nesting).
C6_BlockCommentDropped ==
  (MetBlock /\ Closers(jsonc_text, skip_at + 2) # {}) =>
    LET q == FirstCloser(jsonc_text, skip_at + 2) IN
      /\ last # "block_exhaust"
      /\ pc = "block" =>
           /\ result = skip_out
           /\ skip_at + 2 <= i /\ i <= q
           /\ ~in_string /\ ~escape_next
      /\ last = "block_close" =>
           /\ pc = "outer"
           /\ i = q + 2
           /\ result = skip_out
           /\ ~in_string /\ ~escape_next
      /\ pc # "block" => i >= q + 2
      /\ \A n \in 1..Len(heads) : heads[n] <= skip_at \/ heads[n] >= q + 2

\* A block comment holding a comment marker of its own has just been closed
\* at its first closer, with text left to scan.
C6_Witness ==
  /\ MetBlock /\ last = "block_close"
  /\ i < Len(jsonc_text)
  /\ i = FirstCloser(jsonc_text, skip_at + 2) + 2
  /\ \E k \in (skip_at + 2)..(i - 4) :
       TwoAt(jsonc_text, k, SLASH, STAR) \/ TwoAt(jsonc_text, k, SLASH, SLASH)

\* C7: inside a string, a double quote right after an unescaped backslash is
\* appended by the escape_next branch, escape_next is cleared and in_string
\* stays true.
C7_EscapedQuoteKeepsString ==
  [][(pc = "outer" /\ last = "backslash"
        /\ i < Len(jsonc_text) /\ jsonc_text[i + 1] = QUOTE)
       => /\ in_string /\ escape_next
          /\ in_string' /\ ~escape_next'
          /\ result' = Append(result, QUOTE)
          /\ i' = i + 1
          /\ last' = "escaped"]_vars

\* After an escaped quote inside a string, a line comment marker has been
\* copied through.
C7_Witness ==
  /\ pc = "outer" /\ in_string /\ last = "copy"
  /\ jsonc_text = <<QUOTE, BACKSLASH, QUOTE, SLASH, SLASH>>
  /\ result = jsonc_text

\* C8: the scan is total and terminates: no error state, every read of the
\* outer loop is at an index in 0..len-1, every call returns with the cursor
\* at the input length, and the empty input gives the empty output.
C8_TotalAndTerminates ==
  /\ [](/\ pc # "error"
        /\ \A n \in 1..Len(heads) : heads[n] \in 0..(Len(jsonc_text) - 1)
        /\ pc = "done" => i = Len(jsonc_text)
        /\ (pc = "done" /\ jsonc_text = <<>>) => result = <<>>)
  /\ (pc # "done") ~> (pc = "done")

\* A call has returned on an unterminated string that ends in a dangling
\* backslash.
C8_Witness ==
  /\ pc = "done" /\ call = 1
  /\ in_string /\ escape_next
  /\ i = Len(jsonc_text) /\ i >= 3

\* C9: the cursor stays in 0..len, never decreases within a call, strictly
\* increases on every iteration of the outer loop and of each inner skip
\* loop, and the outer loop body is entered at strictly increasing positions.
C9_CursorMonotonic ==
  /\ [](/\ 0 <= i /\ i <= Len(jsonc_text)
        /\ \A m, n \in 1..Len(heads) : m < n => heads[m] < heads[n]
        /\ (pc \in {"outer", "done"} /\ heads # <<>>) => heads[Len(heads)] < i)
  /\ [][call' = call => i' >= i]_vars
  /\ [][(call' = call /\ pc = "outer" /\ pc' = "outer") => i' > i]_vars
  /\ [][(pc = "line" /\ pc' = "line") => i' > i]_vars
  /\ [][(pc = "block" /\ (pc' = "block" \/ last' = "block_close")) => i' > i]_vars

\* A call has returned after entering the outer loop body at least three
\* times, fewer times than the input is long, having skipped a comment.
C9_Witness ==
  /\ pc = "done" /\ call = 1
  /\ skip_at >= 1
  /\ Len(heads) >= 3
  /\ Len(heads) < Len(jsonc_text)

\* C10: on every step of a call in_string is negated when the character at
\* the cursor of the outer loop is a double quote and escape_next is false,
\* and keeps its value on every other step, skip steps included.
C10_InStringFrame ==
  [][call' = call =>
       IF pc = "outer" /\ i < Len(jsonc_text)
            /\ jsonc_text[i + 1] = QUOTE /\ ~escape_next
         THEN in_string' = ~in_string
         ELSE in_string' = in_string]_vars

\* A quote inside a line comment was skipped without entering a string, and
\* the quote after the comment has then opened one.
C10_Witness ==
  /\ jsonc_text = <<SLASH, SLASH, QUOTE, NEWLINE, QUOTE>>
  /\ last = "quote" /\ in_string
  /\ result = <<NEWLINE, QUOTE>>

\* C11: a backslash met while in_string is false is appended as an ordinary
\* character and does not set escape_next; a double quote that directly
\* follows it then sets in_string.
C11_BackslashOutsideString ==
  /\ [][(pc = "outer" /\ i < Len(jsonc_text) /\ ~in_string
           /\ jsonc_text[i + 1] = BACKSLASH)
          => /\ result' = Append(result, BACKSLASH)
             /\ i' = i + 1
             /\ ~escape_next' /\ ~in_string'
             /\ pc' = "outer"]_vars
  /\ [][(pc = "outer" /\ ~in_string /\ i >= 1 /\ i < Len(jsonc_text)
           /\ heads # <<>> /\ heads[Len(heads)] = i - 1
           /\ jsonc_text[i] = BACKSLASH /\ jsonc_text[i + 1] = QUOTE)
          => /\ in_string'
             /\ result' = Append(result, QUOTE)
             /\ i' = i + 1]_vars

\* Outside a string a backslash was copied and the quote right after it has
\* opened a string.
C11_Witness ==
  /\ last = "quote" /\ in_string
  /\ i >= 2 /\ str_at = i - 1
  /\ jsonc_text[i - 1] = BACKSLASH
  /\ result = SubSeq(jsonc_text, 1, i)
  /\ ~escape_next

\* The number of backslashes that stand directly before 0-based position k
\* of t, counted back no further than position lo + 1.
BackslashRun(t, k, lo) ==
  Cardinality({n \in 1..(k - lo - 1) : \A j \in 1..n : t[k - j + 1] = BACKSLASH})

\* Position k of t holds a double quote that an odd run of backslashes inside
\* the string opened at lo does not escape.
UnescapedQuoteAt(t, k, lo) ==
  t[k + 1] = QUOTE /\ BackslashRun(t, k, lo) % 2 = 0

\* C12: when the scan has entered a string at an opening quote and no
\* unescaped double quote follows it in the input, every character from that
\* quote on is copied verbatim, and the scan ends with in_string true, the
\* output ending with that whole input suffix, and no error.
C12_UnterminatedStringCopied ==
  (str_at >= 0
     /\ \A k \in (str_at + 1)..(Len(jsonc_text) - 1) :
          ~UnescapedQuoteAt(jsonc_text, k, str_at))
    => /\ in_string
       /\ pc \in {"outer", "done"}
       /\ str_at < i /\ i <= Len(jsonc_text)
       /\ result = str_out \o SubSeq(jsonc_text, str_at + 1, i)
       /\ pc = "done" => i = Len(jsonc_text)

\* A call has returned inside a string that was opened after some output
\* and holds an escaped quote and a slash.
C12_Witness ==
  /\ pc = "done" /\ in_string
  /\ str_at >= 1
  /\ result = jsonc_text
  /\ \E k \in (str_at + 1)..(Len(jsonc_text) - 2) :
       jsonc_text[k + 1] = BACKSLASH /\ jsonc_text[k + 2] = QUOTE
  /\ jsonc_text[Len(jsonc_text)] = SLASH

-----------------------------------------------------------------------------
\* The explicit state machine of the specification's algorithm steps: a
\* configuration is a state, a cursor k and the output so far.
FiveStates ==
  {"Normal", "InString", "InStringEscape", "InLineComment", "InBlockComment"}

MachineStep(t, c) ==
  LET ch == t[c.k + 1]
      emit == [c EXCEPT !.k = c.k + 1, !.out = Append(c.out, ch)]
  IN
  CASE c.st = "Normal" ->
         IF c.k >= Len(t) THEN [c EXCEPT !.st = "Done"]
         ELSE IF ch = QUOTE THEN [emit EXCEPT !.st = "InString"]
         ELSE IF TwoAt(t, c.k, SLASH, SLASH) THEN [c EXCEPT !.st = "InLineComment"]
         ELSE IF TwoAt(t, c.k, SLASH, STAR)
           THEN [c EXCEPT !.st = "InBlockComment", !.k = c.k + 2]
         ELSE emit
    [] c.st = "InString" ->
         IF c.k >= Len(t) THEN [c EXCEPT !.st = "Done"]
         ELSE IF ch = BACKSLASH THEN [emit EXCEPT !.st = "InStringEscape"]
         ELSE IF ch = QUOTE THEN [emit EXCEPT !.st = "Normal"]
         ELSE emit
    [] c.st = "InStringEscape" ->
         IF c.k >= Len(t) THEN [c EXCEPT !.st = "Done"]
         ELSE [emit EXCEPT !.st = "InString"]
    [] c.st = "InLineComment" ->
         IF c.k < Len(t) /\ ch # NEWLINE THEN [c EXCEPT !.k = c.k + 1]
         ELSE [c EXCEPT !.st = "Normal"]
    [] c.st = "InBlockComment" ->
         IF c.k >= Len(t) THEN [c EXCEPT !.st = "Normal"]
         ELSE IF TwoAt(t, c.k, STAR, SLASH)
           THEN [c EXCEPT !.st = "Normal", !.k = c.k + 2]
         ELSE [c EXCEPT !.k = c.k + 1]
    [] OTHER -> c

\* The machine configuration a state of the two-flag scan stands for.
AsMachine ==
  [st |-> CASE pc = "done" -> "Done"
            [] pc = "line" /\ ~in_string /\ ~escape_next -> "InLineComment"
            [] pc = "block" /\ ~in_string /\ ~escape_next -> "InBlockComment"
            [] pc = "outer" /\ in_string /\ escape_next -> "InStringEscape"
            [] pc = "outer" /\ in_string /\ ~escape_next -> "InString"
            [] pc = "outer" /\ ~in_string /\ ~escape_next -> "Normal"
            [] OTHER -> "None",
   k |-> i,
   out |-> result]

\* C13: the two-flag scan and the five-state machine run side by side: every
\* configuration of the scan stands for exactly one of the five states (or
\* the halted machine), every step of the scan is the machine's step, and so
\* the two outputs are equal.
C13_FiveStateMachine ==
  /\ [](AsMachine.st \in FiveStates \cup {"Done"})
  /\ [][call' = call => AsMachine' = MachineStep(jsonc_text, AsMachine)]_vars

-----------------------------------------------------------------------------
\* C14: escape_next true implies in_string true, at the head of every
\* iteration of the outer loop and everywhere else; so where the quote test
\* of line 30 is reached escape_next is false and the test is decided by the
\* character alone.
C14_EscapeOnlyInString ==
  /\ escape_next => in_string
  /\ NotBackslash => (~escape_next /\ (quote_test(char, escape_next) <=> char = QUOTE))
  /\ escape_next => (pc \in {"outer", "done"} /\ i >= 2 /\ jsonc_text[i] = BACKSLASH)

\* At the head of an outer loop iteration, inside a string, an escape is
\* pending before a double quote.
C14_Witness ==
  /\ pc = "outer" /\ i < Len(jsonc_text)
  /\ escape_next /\ in_string
  /\ jsonc_text[i + 1] = QUOTE

\* C15: when the last character of the input is an unescaped backslash
\* inside a string, it is appended, and the scan then returns with
\* escape_next still true, nothing more appended and no error.
C15_DanglingBackslash ==
  /\ [][(pc = "outer" /\ in_string /\ ~escape_next
           /\ i = Len(jsonc_text) - 1 /\ jsonc_text[i + 1] = BACKSLASH)
          => /\ result' = Append(result, BACKSLASH)
             /\ escape_next' /\ in_string'
             /\ i' = Len(jsonc_text)
             /\ pc' = "outer"]_vars
  /\ [][(pc = "outer" /\ escape_next /\ i = Len(jsonc_text))
          => /\ pc' = "done"
             /\ escape_next' /\ in_string'
             /\ result' = result /\ i' = i]_vars
  /\ [](pc # "error")
  /\ []((pc = "done" /\ escape_next)
          => /\ result # <<>> /\ result[Len(result)] = BACKSLASH
             /\ jsonc_text[Len(jsonc_text)] = BACKSLASH)

\* A call has returned with the escape still pending: the input ends in a
\* backslash right after the quote that opened a string.
C15_Witness ==
  /\ pc = "done" /\ call = 1 /\ escape_next
  /\ str_at >= 1 /\ str_at = Len(jsonc_text) - 2
  /\ result = jsonc_text
  /\ jsonc_text[Len(jsonc_text)] = BACKSLASH

RECURSIVE IsSubsequence(_, _)
\* a can be obtained from b by deleting characters.
IsSubsequence(a, b) ==
  IF a = <<>> THEN TRUE
  ELSE IF b = <<>> THEN FALSE
  ELSE IF Head(a) = Head(b) THEN IsSubsequence(Tail(a), Tail(b))
  ELSE IsSubsequence(a, Tail(b))

IsPrefix(a, b) == Len(a) <= Len(b) /\ SubSeq(b, 1, Len(a)) = a

\* C16: the output is a subsequence of the input: every step either leaves
\* the output alone or appends the character at the cursor and moves the
\* cursor past it, so nothing is inserted, the output is never longer than
\* the part of the input already passed, and the output of every step is a
\* prefix of the output of the next.
C16_OutputIsSubsequence ==
  /\ [](/\ Len(result) <= i /\ i <= Len(jsonc_text)
        /\ IsSubsequence(result, SubSeq(jsonc_text, 1, i)))
  /\ [][call' = call =>
          \/ result' = result
          \/ /\ i < Len(jsonc_text)
             /\ result' = Append(result, jsonc_text[i + 1])
             /\ i' = i + 1]_vars
  /\ [][call' = call => IsPrefix(result, result')]_vars

\* A call has returned after dropping a terminated comment from the middle
\* of its input: the output holds text from before and from after it.
C16_Witness ==
  /\ pc = "done" /\ call = 1
  /\ skip_out # <<>>
  /\ MetLine \/ (MetBlock /\ Closers(jsonc_text, skip_at + 2) # {})
  /\ Len(result) > Len(skip_out)
  /\ Len(result) + 2 <= Len(jsonc_text)
  /\ ~IsPrefix(result, jsonc_text)

\* The scan stands right after a comment: the line skip loop has just ended,
\* a block comment has just been closed, or the newline that ended a line
\* comment has just been copied.
JustAfterComment ==
  \/ last \in {"line_end", "block_close"}
  \/ /\ MetLine /\ last = "copy"
     /\ i >= 1 /\ jsonc_text[i] = NEWLINE
     /\ result = Append(skip_out, NEWLINE)

\* C17: a double quote or backslash inside a line comment or a closed block
\* comment changes neither in_string nor escape_next: both are false in the
\* comment and right after it, as before it, and a comment marker that
\* follows the comment is recognised.
C17_CommentKeepsFlags ==
  /\ []((pc \in {"line", "block"} \/ JustAfterComment)
          => (~in_string /\ ~escape_next))
  /\ [][(pc = "line" \/ pc = "block")
          => (in_string' = in_string /\ escape_next' = escape_next)]_vars
  /\ [][(JustAfterComment /\ pc = "outer"
           /\ (TwoAt(jsonc_text, i, SLASH, SLASH) \/ TwoAt(jsonc_text, i, SLASH, STAR)))
          => /\ pc' \in {"line", "block"}
             /\ skip_at' = i
             /\ result' = result]_vars

\* A line comment holding a double quote was dropped, its newline copied,
\* and the line comment right after it has been recognised.
C17_Witness ==
  /\ jsonc_text = <<SLASH, SLASH, QUOTE, NEWLINE, SLASH, SLASH>>
  /\ pc = "line" /\ skip_at = 4
  /\ result = <<NEWLINE>>
  /\ ~in_string /\ ~escape_next

\* C18: the closer of a block comment lies entirely after the two-character
\* opener: when a slash directly follows the opener and more text follows,
\* the comment is not closed at the opener's star and runs until a later
\* closer or, without one, to the end of the input.
C18_OpenerStarNotReused ==
  (MetBlock /\ TwoAt(jsonc_text, skip_at + 1, STAR, SLASH)
     /\ Len(jsonc_text) > skip_at + 3)
    => /\ last = "block_close" => i >= skip_at + 4
       /\ pc = "block" => (i >= skip_at + 2 /\ result = skip_out)
       /\ IF Closers(jsonc_text, skip_at + 2) = {}
            THEN result = skip_out
            ELSE LET q == FirstCloser(jsonc_text, skip_at + 2) IN
                   /\ i <= q + 2 => result = skip_out
                   /\ pc # "block" => i >= q + 2

=============================================================================
